---- MODULE Spec2Model ----
(***************************************************************************)
(* Sales dashboard: reference store (legend/legend.xlsx), mapping resolver *)
(* (SKUManager), cached ingestion pipeline (load_data).                    *)
(*                                                                         *)
(* Text is a sequence of one-character strings, so that trimming and       *)
(* lower-casing are computed.  A cell is NaN (an empty cell / missing      *)
(* value), Str(text) or Num(n).  A table (DataFrame) is                    *)
(* [cols |-> sequence of column names, rows |-> sequence of rows], a row   *)
(* being a sequence of cells aligned with cols.                            *)
(***************************************************************************)
EXTENDS Integers, Sequences, FiniteSets, TLC

VARIABLES
    legend,       \* legend/legend.xlsx on disk: [st, sheets]
    sheet_cache,  \* st.cache_data entries of load_sheet_data: sheet name -> table
    sku_manager,  \* the SKUManager instance (its four attributes)
    source,       \* the source directory: [exists, files]
    data_cache,   \* st.cache_data entry of load_data (its key has no argument)
    out           \* what the last operation was given and what it returned

vars == <<legend, sheet_cache, sku_manager, source, data_cache, out>>

(***************************************************************************)
(* Text                                                                    *)
(***************************************************************************)
SP == " "

RECURSIVE LStrip(_)
LStrip(t) == IF t # <<>> /\ Head(t) = SP THEN LStrip(Tail(t)) ELSE t

RECURSIVE RStrip(_)
RStrip(t) ==
    IF t # <<>> /\ t[Len(t)] = SP THEN RStrip(SubSeq(t, 1, Len(t) - 1)) ELSE t

\* str.strip()
Strip(t) == RStrip(LStrip(t))

\* str.lower(), on the letters the model's names use
LowerChar(c) ==
    CASE c = "S" -> "s"
      [] c = "T" -> "t"
      [] c = "A" -> "a"
      [] c = "E" -> "e"
      [] c = "U" -> "u"
      [] c = "M" -> "m"
      [] c = "X" -> "x"
      [] OTHER -> c

Lower(t) == [i \in 1..Len(t) |-> LowerChar(t[i])]

(***************************************************************************)
(* Cells and tables                                                        *)
(***************************************************************************)
NaN == [k |-> "nan"]
Str(t) == [k |-> "str", v |-> t]
Num(n) == [k |-> "num", n |-> n]

IsNa(c) == c.k = "nan"
IsStr(c) == c.k = "str"

NanText == <<"n", "a", "n">>
Digits == <<"0", "1", "2", "3", "4", "5", "6", "7", "8", "9">>

\* str(x) as Series.astype(str) applies it to one cell of an object column
AsTypeStr(c) ==
    CASE IsNa(c) -> NanText
      [] IsStr(c) -> c.v
      [] OTHER -> <<Digits[c.n + 1]>>

EmptyFrame == [cols |-> <<>>, rows |-> <<>>]

\* DataFrame.empty
IsEmpty(df) == Len(df.cols) = 0 \/ Len(df.rows) = 0

HasCol(df, c) == \E i \in 1..Len(df.cols) : df.cols[i] = c

ColIdx(df, c) == CHOOSE i \in 1..Len(df.cols) : df.cols[i] = c

\* df[c] as the sequence of its cells
Col(df, c) == [r \in 1..Len(df.rows) |-> df.rows[r][ColIdx(df, c)]]

\* the elements of s at the positions satisfying keep, in order
RECURSIVE Pick(_, _)
Pick(s, keep) ==
    IF s = <<>> THEN <<>>
    ELSE LET n == Len(s)
             front == Pick(SubSeq(s, 1, n - 1), keep \ {n})
         IN IF n \in keep THEN Append(front, s[n]) ELSE front

\* dict(zip(ks, vs)): a later pair overwrites an earlier one with the same key
ZipDict(ks, vs) ==
    LET n == IF Len(ks) < Len(vs) THEN Len(ks) ELSE Len(vs)
        last(k) == CHOOSE i \in 1..n :
                       ks[i] = k /\ \A j \in 1..n : ks[j] = k => j <= i
    IN [k \in {ks[i] : i \in 1..n} |-> vs[last(k)]]

\* an update that keeps the entries d already has
UpdateKeepingFirst(d, e) == d @@ e

\* d.update(e)
Update(d, e) == e @@ d

(***************************************************************************)
(* ReferenceStore: legend_loader.py                                        *)
(***************************************************************************)
Sheet1 == <<"S", "h", "e", "e", "t", "1">>

\* the strings read_excel reads as missing by default (keep_default_na);
\* of pandas' list, the empty string and "nan" occur in the model
NaTexts == {<<>>, NanText}

\* what openpyxl stores for a cell: an empty string is written as an empty cell
WriteCell(c) == IF IsStr(c) /\ c.v = <<>> THEN NaN ELSE c

\* DataFrame.to_excel(writer, sheet_name, index=False): the sheet as stored
ToExcel(df) ==
    [cols |-> df.cols,
     rows |-> [r \in 1..Len(df.rows) |->
                  [i \in 1..Len(df.cols) |-> WriteCell(df.rows[r][i])]]]

ReadCell(c) == IF IsStr(c) /\ c.v \in NaTexts THEN NaN ELSE c

SheetNamesOf(sheets) == [i \in 1..Len(sheets) |-> sheets[i].name]

HasSheet(sheets, name) == \E i \in 1..Len(sheets) : sheets[i].name = name

SheetData(sheets, name) ==
    sheets[CHOOSE i \in 1..Len(sheets) : sheets[i].name = name].data

\* pd.read_excel(legend_path, sheet_name=name) on a readable workbook that
\* has the sheet
ReadExcel(sheets, name) ==
    LET d == SheetData(sheets, name)
    IN [cols |-> d.cols,
        rows |-> [r \in 1..Len(d.rows) |->
                     [i \in 1..Len(d.cols) |-> ReadCell(d.rows[r][i])]]]

\* initialize_legend_spreadsheet: an absent workbook is created with one
\* empty sheet; an existing file is left as it is
initialize_legend_spreadsheet(lg) ==
    IF lg.st = "absent"
    THEN [st |-> "ok", sheets |-> <<[name |-> Sheet1, data |-> EmptyFrame]>>]
    ELSE lg

\* get_sheet_names: the names after initialisation, [] when the file cannot
\* be opened as a workbook
get_sheet_names(lg) ==
    LET l == initialize_legend_spreadsheet(lg)
    IN IF l.st = "ok" THEN SheetNamesOf(l.sheets) ELSE <<>>

\* the column passes the "non-empty" test of load_sheet_data
NonEmptyCol(df, i) ==
    /\ \E r \in 1..Len(df.rows) : ~IsNa(df.rows[r][i])
    /\ ~(\A r \in 1..Len(df.rows) : Strip(AsTypeStr(df.rows[r][i])) = <<>>)

\* dtype == object: the column holds a string
IsObjectCol(df, i) == \E r \in 1..Len(df.rows) : IsStr(df.rows[r][i])

\* the body of load_sheet_data (a cache miss)
LoadSheetBody(lg, name) ==
    IF lg.st # "ok" \/ ~HasSheet(lg.sheets, name) THEN EmptyFrame
    ELSE LET df == ReadExcel(lg.sheets, name)
             keepc == {i \in 1..Len(df.cols) : NonEmptyCol(df, i)}
             kept == Pick([i \in 1..Len(df.cols) |-> i], keepc)
             clean(r, i) == IF IsObjectCol(df, i)
                            THEN Str(Strip(AsTypeStr(df.rows[r][i])))
                            ELSE df.rows[r][i]
             rows == [r \in 1..Len(df.rows) |->
                         [j \in 1..Len(kept) |-> clean(r, kept[j])]]
             keepr == {r \in 1..Len(rows) :
                          \E j \in 1..Len(kept) : ~IsNa(rows[r][j])}
         IN [cols |-> [j \in 1..Len(kept) |-> df.cols[kept[j]]],
             rows |-> Pick(rows, keepr)]

\* @st.cache_data: the entry for the argument is returned when there is one
CacheAfterLoad(cache, lg, name) ==
    IF name \in DOMAIN cache THEN cache
    ELSE (name :> LoadSheetBody(lg, name)) @@ cache

load_sheet_data(cache, lg, name) == CacheAfterLoad(cache, lg, name)[name]

\* openpyxl refuses a sheet title holding one of \ * ? : / [ ]
InvalidTitleChars == {"\\", "*", "?", ":", "/", "[", "]"}

ValidTitle(name) == \A i \in 1..Len(name) : name[i] \notin InvalidTitleChars

\* the sheet a workbook gets from create_sheet() before its title is set
DefaultSheet == <<"S", "h", "e", "e", "t">>

\* the names of the other sheets, in workbook order
OtherNames(sheets, name) ==
    Pick(SheetNamesOf(sheets), {i \in 1..Len(sheets) : sheets[i].name # name})

\* the workbook save_sheet_data writes: the updated sheet first, then every
\* other sheet as read_excel read it
Rewritten(sheets, df, name) ==
    LET others == OtherNames(sheets, name)
    IN <<[name |-> name, data |-> ToExcel(df)]>> \o
       [i \in 1..Len(others) |->
           [name |-> others[i],
            data |-> ToExcel(ReadExcel(sheets, others[i]))]]

\* save_sheet_data(df, sheet_name): [ok, legend].  pd.ExcelFile raises on a
\* file that is no workbook; to_excel raises on an invalid title after the
\* writer has created the sheet, and the writer saves its workbook on exit.
save_sheet_data(lg, df, name) ==
    IF lg.st # "ok" THEN [ok |-> FALSE, legend |-> lg]
    ELSE IF ~ValidTitle(name)
    THEN [ok |-> FALSE,
          legend |-> [st |-> "ok",
                      sheets |-> <<[name |-> DefaultSheet, data |-> EmptyFrame]>>]]
    ELSE [ok |-> TRUE,
          legend |-> [st |-> "ok", sheets |-> Rewritten(lg.sheets, df, name)]]

(***************************************************************************)
(* MappingResolver: sku_manager.py                                         *)
(***************************************************************************)
state_sheet_variants ==
    << <<"u", "s", " ", "s", "t", "a", "t", "e">>,
       <<"U", "S", " ", "S", "t", "a", "t", "e">>,
       <<"U", "S", " ", "S", "T", "A", "T", "E">>,
       <<"u", "s", "_", "s", "t", "a", "t", "e">>,
       <<"U", "S", "S", "t", "a", "t", "e">>,
       <<"S", "t", "a", "t", "e">> >>

IsStateName(sheet) ==
    \E v \in 1..Len(state_sheet_variants) :
        Lower(state_sheet_variants[v]) = Lower(sheet)

NoSheet == <<>>

\* _find_state_sheet: the first available sheet matching a variant, or None
find_state_sheet(available_sheets) ==
    LET hits == {i \in 1..Len(available_sheets) : IsStateName(available_sheets[i])}
    IN IF hits = {} THEN NoSheet
       ELSE available_sheets[CHOOSE i \in hits : \A j \in hits : i <= j]

IsSkuSheet(d) == ~IsEmpty(d) /\ HasCol(d, "SKU") /\ HasCol(d, "Merchant SKU")

\* the loop of _load_mappings over the first n available sheets
RECURSIVE SkuMappingOf(_, _, _)
SkuMappingOf(available_sheets, cache, n) ==
    IF n = 0 THEN <<>>
    ELSE LET prev == SkuMappingOf(available_sheets, cache, n - 1)
             d == cache[available_sheets[n]]
         IN IF IsSkuSheet(d)
            THEN Update(prev, ZipDict(Col(d, "Merchant SKU"), Col(d, "SKU")))
            ELSE prev

IsStateSheet(d) == ~IsEmpty(d) /\ HasCol(d, "State Code") /\ HasCol(d, "State Name")

\* Series.str.strip() on a column of strings
StrStrip(cells) == [i \in 1..Len(cells) |-> Str(Strip(cells[i].v))]

\* every sheet of the list has been through load_sheet_data
RECURSIVE CacheAfterLoads(_, _, _, _)
CacheAfterLoads(cache, lg, names, n) ==
    IF n = 0 THEN cache
    ELSE CacheAfterLoad(CacheAfterLoads(cache, lg, names, n - 1), lg, names[n])

\* _load_mappings: the attributes it sets, from the sheets as load_sheet_data
\* returns them
load_mappings(available_sheets, cache) ==
    LET st == find_state_sheet(available_sheets)
        sd == IF st = NoSheet THEN EmptyFrame ELSE cache[st]
        has == IsStateSheet(sd)
        codes == IF has THEN StrStrip(Col(sd, "State Code")) ELSE <<>>
        names == IF has THEN StrStrip(Col(sd, "State Name")) ELSE <<>>
    IN [available_sheets |-> available_sheets,
        sku_mapping |-> SkuMappingOf(available_sheets, cache, Len(available_sheets)),
        state_name_to_code |->
            Update(Update(<<>>, ZipDict(names, codes)), ZipDict(codes, codes)),
        valid_state_codes |-> {codes[i] : i \in 1..Len(codes)}]

\* SKUManager(): get_sheet_names, then _load_mappings
\* [mgr, cache, legend] after the constructor
SKUManager(cache, lg) ==
    LET names == get_sheet_names(lg)
        l == initialize_legend_spreadsheet(lg)
        c == CacheAfterLoads(cache, l, names, Len(names))
    IN [mgr |-> load_mappings(names, c), cache |-> c, legend |-> l]

\* SKUManager.save_sheet_data refreshing the sheets and the mappings whatever
\* the save returned
mgr_save_sheet_data_refreshing(mgr, cache, lg, df, name) ==
    LET w == save_sheet_data(lg, df, name)
        b == SKUManager(cache, w.legend)
    IN [ok |-> w.ok, mgr |-> b.mgr, cache |-> b.cache, legend |-> b.legend]

\* SKUManager.save_sheet_data: [ok, mgr, cache, legend]
mgr_save_sheet_data(mgr, cache, lg, df, name) ==
    LET w == save_sheet_data(lg, df, name)
        b == SKUManager(cache, w.legend)
    IN IF w.ok
       THEN [ok |-> TRUE, mgr |-> b.mgr, cache |-> b.cache, legend |-> b.legend]
       ELSE [ok |-> FALSE, mgr |-> mgr, cache |-> cache, legend |-> w.legend]

\* map_sku: dict.get(merchant_sku, merchant_sku)
map_sku(mgr, merchant_sku) ==
    IF merchant_sku \in DOMAIN mgr.sku_mapping
    THEN mgr.sku_mapping[merchant_sku] ELSE merchant_sku

\* map_state looking the value up as given, without str.strip()
map_state_unstripped(mgr, state) ==
    IF IsNa(state) THEN NaN
    ELSE LET key == Str(AsTypeStr(state))
             mapped_state == IF key \in DOMAIN mgr.state_name_to_code
                             THEN mgr.state_name_to_code[key] ELSE NaN
         IN IF mapped_state \in mgr.valid_state_codes THEN mapped_state ELSE NaN

\* map_state; None is the missing cell
map_state(mgr, state) ==
    IF IsNa(state) THEN NaN
    ELSE LET key == Str(Strip(AsTypeStr(state)))
             mapped_state == IF key \in DOMAIN mgr.state_name_to_code
                             THEN mgr.state_name_to_code[key] ELSE NaN
         IN IF mapped_state \in mgr.valid_state_codes THEN mapped_state ELSE NaN

\* df[name] = values: the column replaced, or added last
WithCol(df, name, values) ==
    IF HasCol(df, name)
    THEN [cols |-> df.cols,
          rows |-> [r \in 1..Len(df.rows) |->
                       [df.rows[r] EXCEPT ![ColIdx(df, name)] = values[r]]]]
    ELSE [cols |-> Append(df.cols, name),
          rows |-> [r \in 1..Len(df.rows) |-> Append(df.rows[r], values[r])]]

\* df[keep]: the rows at the positions of keep
FilterRows(df, keep) == [cols |-> df.cols, rows |-> Pick(df.rows, keep)]

\* Series.map(dict) without the fillna: an unmapped SKU becomes missing
MappedSkuNoFill(mgr, raw) ==
    IF raw \in DOMAIN mgr.sku_mapping THEN mgr.sku_mapping[raw] ELSE NaN

\* Series.map(dict).fillna(raw) on one cell
MappedSku(mgr, raw) ==
    LET m == IF raw \in DOMAIN mgr.sku_mapping THEN mgr.sku_mapping[raw] ELSE NaN
    IN IF IsNa(m) THEN raw ELSE m

\* map_skus_in_df mapping the regions without dropping the unmapped rows
map_skus_in_df_keep_all(mgr, df) ==
    IF HasCol(df, "Merchant SKU")
    THEN LET raw == Col(df, "Merchant SKU")
             d1 == WithCol(df, "SKU",
                       [r \in 1..Len(raw) |-> MappedSku(mgr, raw[r])])
         IN IF HasCol(d1, "Shipping State") /\ mgr.valid_state_codes # {}
            THEN WithCol(d1, "Shipping State",
                     [r \in 1..Len(d1.rows) |->
                         map_state(mgr, Col(d1, "Shipping State")[r])])
            ELSE d1
    ELSE df

\* map_skus_in_df filtering by region whether or not there are valid codes
map_skus_in_df_always_filter(mgr, df) ==
    IF HasCol(df, "Merchant SKU")
    THEN LET raw == Col(df, "Merchant SKU")
             d1 == WithCol(df, "SKU",
                       [r \in 1..Len(raw) |-> MappedSku(mgr, raw[r])])
         IN IF HasCol(d1, "Shipping State")
            THEN LET code == [r \in 1..Len(d1.rows) |->
                                 map_state(mgr, Col(d1, "Shipping State")[r])]
                     keep == {r \in 1..Len(d1.rows) : ~IsNa(code[r])}
                 IN FilterRows(WithCol(d1, "Shipping State", code), keep)
            ELSE d1
    ELSE df

\* map_skus_in_df
map_skus_in_df(mgr, df) ==
    IF HasCol(df, "Merchant SKU")
    THEN LET raw == Col(df, "Merchant SKU")
             d1 == WithCol(df, "SKU",
                       [r \in 1..Len(raw) |-> MappedSku(mgr, raw[r])])
         IN IF HasCol(d1, "Shipping State") /\ mgr.valid_state_codes # {}
            THEN LET code == [r \in 1..Len(d1.rows) |->
                                 map_state(mgr, Col(d1, "Shipping State")[r])]
                     keep == {r \in 1..Len(d1.rows) : ~IsNa(code[r])}
                 IN FilterRows(WithCol(d1, "Shipping State", code), keep)
            ELSE d1
    ELSE df

(***************************************************************************)
(* IngestionPipeline: loader.py                                            *)
(*                                                                         *)
(* A csv file is [mtime, size, readable, data]: data is the table read_csv *)
(* returns for it.  In its "Purchase Date" column Ts(y, m, d) is a string  *)
(* that parses to that UTC day, any Str a string that does not parse; in   *)
(* its numeric columns Num is a number and Str a string that is none.      *)
(***************************************************************************)
Ts(y, m, d) == [k |-> "ts", y |-> y, m |-> m, d |-> d]
Date(y, m, d) == [k |-> "date", y |-> y, m |-> m, d |-> d]

PathOrder == <<"a.csv", "b.csv">>
Paths == {PathOrder[i] : i \in 1..Len(PathOrder)}

NoHash == <<"None">>

\* get_source_files_hash: the digest is a function of the sorted sequence of
\* (path, mtime, size), which stands for it here
get_source_files_hash(src) ==
    IF ~src.exists THEN NoHash
    ELSE LET present == Pick(PathOrder,
                            {i \in 1..Len(PathOrder) : PathOrder[i] \in DOMAIN src.files})
         IN [i \in 1..Len(present) |->
                <<present[i], src.files[present[i]].mtime, src.files[present[i]].size>>]

\* the orders glob.glob('source/*.csv') may list the files in
GlobOrders(src) ==
    IF ~src.exists THEN {<<>>}
    ELSE LET ps == DOMAIN src.files
         IN {o \in [1..Cardinality(ps) -> ps] :
                \A i, j \in 1..Cardinality(ps) : i # j => o[i] # o[j]}

\* the per-file try block completes: read_csv reads the file, both columns
\* exist and every timestamp given parses
FileParses(f) ==
    /\ f.readable
    /\ HasCol(f.data, "Purchase Date")
    /\ \A r \in 1..Len(f.data.rows) : ~IsStr(Col(f.data, "Purchase Date")[r])
    /\ HasCol(f.data, "Merchant SKU")

\* pd.to_datetime(utc=True) on a cell that parses or is missing
ToDatetime(c) == IF IsNa(c) THEN NaN ELSE Date(c.y, c.m, c.d)

\* Series.str.strip(): a missing value stays missing
StripCell(c) == IF IsStr(c) THEN Str(Strip(c.v)) ELSE c

\* the per-file block of load_data on a file that parses
ParsedFile(f) ==
    LET d1 == WithCol(f.data, "Purchase Date",
                  [r \in 1..Len(f.data.rows) |->
                      ToDatetime(Col(f.data, "Purchase Date")[r])])
        d2 == FilterRows(d1, {r \in 1..Len(d1.rows) :
                                 ~IsNa(Col(d1, "Purchase Date")[r])})
    IN WithCol(d2, "Merchant SKU",
           [r \in 1..Len(d2.rows) |-> StripCell(Col(d2, "Merchant SKU")[r])])

RECURSIVE UnionCols(_, _)
UnionCols(dfs, n) ==
    IF n = 0 THEN <<>>
    ELSE LET prev == UnionCols(dfs, n - 1)
             c == dfs[n].cols
             seen(x) == \E j \in 1..Len(prev) : prev[j] = x
         IN prev \o Pick(c, {i \in 1..Len(c) : ~seen(c[i])})

Reindexed(df, cols) ==
    [r \in 1..Len(df.rows) |->
        [j \in 1..Len(cols) |->
            IF HasCol(df, cols[j]) THEN df.rows[r][ColIdx(df, cols[j])] ELSE NaN]]

RECURSIVE ConcatRows(_, _, _)
ConcatRows(dfs, cols, n) ==
    IF n = 0 THEN <<>>
    ELSE ConcatRows(dfs, cols, n - 1) \o Reindexed(dfs[n], cols)

\* pd.concat(dfs, ignore_index=True)
Concat(dfs) ==
    LET cols == UnionCols(dfs, Len(dfs))
    IN [cols |-> cols, rows |-> ConcatRows(dfs, cols, Len(dfs))]

MonthNames ==
    << <<"J", "a", "n", "u", "a", "r", "y">>,
       <<"F", "e", "b", "r", "u", "a", "r", "y">>,
       <<"M", "a", "r", "c", "h">>,
       <<"A", "p", "r", "i", "l">>,
       <<"M", "a", "y">>,
       <<"J", "u", "n", "e">>,
       <<"J", "u", "l", "y">>,
       <<"A", "u", "g", "u", "s", "t">>,
       <<"S", "e", "p", "t", "e", "m", "b", "e", "r">>,
       <<"O", "c", "t", "o", "b", "e", "r">>,
       <<"N", "o", "v", "e", "m", "b", "e", "r">>,
       <<"D", "e", "c", "e", "m", "b", "e", "r">> >>

\* pd.to_numeric(errors='coerce').fillna(1): the missing filled with 1
ToNumeric1(c) == IF c.k = "num" THEN c ELSE Num(1)

\* pd.to_numeric(errors='coerce').fillna(0)
ToNumeric0(c) == IF c.k = "num" THEN c ELSE Num(0)

\* df[name] = pd.to_numeric(df[name], errors='coerce').fillna(0)
NumericCol(df, name) ==
    WithCol(df, name, [r \in 1..Len(df.rows) |-> ToNumeric0(Col(df, name)[r])])

NumericCols == <<"Item Price", "Item Promo Discount", "Shipped Quantity">>

\* the processing of the combined table raises: a numeric column is in no file
ProcessingRaises(df) == \E i \in 1..Len(NumericCols) : ~HasCol(df, NumericCols[i])

\* lines 78-97 of load_data on the combined table
Processed(df) ==
    LET pd == Col(df, "Purchase Date")
        n == Len(df.rows)
        d1 == WithCol(df, "Date", [r \in 1..n |-> pd[r]])
        d2 == WithCol(d1, "Month", [r \in 1..n |-> Num(pd[r].m)])
        d3 == WithCol(d2, "Month_Name", [r \in 1..n |-> Str(MonthNames[pd[r].m])])
        d4 == WithCol(d3, "Year", [r \in 1..n |-> Num(pd[r].y)])
        d5 == NumericCol(d4, "Item Price")
        d6 == NumericCol(d5, "Item Promo Discount")
        d7 == WithCol(d6, "Revenue",
                  [r \in 1..n |-> Num(Col(d6, "Item Price")[r].n
                                      - Col(d6, "Item Promo Discount")[r].n)])
        d8 == NumericCol(d7, "Shipped Quantity")
        d9 == FilterRows(d8, {r \in 1..n : ~IsNa(Col(d8, "Year")[r])
                                            /\ ~IsNa(Col(d8, "Merchant SKU")[r])})
    IN FilterRows(d9, {r \in 1..Len(d9.rows) :
                          Strip(Col(d9, "Merchant SKU")[r].v) # <<>>})

ReadError(file) == [msg |-> "Error reading file", file |-> file]
ProcessError == [msg |-> "Error processing data", file |-> ""]
NoFilesError == [msg |-> "No CSV files found in the source directory", file |-> ""]

\* the diagnostics of the per-file loop over the first n files of the listing
RECURSIVE ReadErrors(_, _, _)
ReadErrors(src, order, n) ==
    IF n = 0 THEN <<>>
    ELSE LET prev == ReadErrors(src, order, n - 1)
         IN IF FileParses(src.files[order[n]]) THEN prev
            ELSE Append(prev, ReadError(order[n]))

\* dfs after the per-file loop over the first n files of the listing
RECURSIVE ParsedFiles(_, _, _)
ParsedFiles(src, order, n) ==
    IF n = 0 THEN <<>>
    ELSE LET prev == ParsedFiles(src, order, n - 1)
         IN IF FileParses(src.files[order[n]])
            THEN Append(prev, ParsedFile(src.files[order[n]])) ELSE prev

\* load_data giving up at the first file that fails to parse
LoadDataBodyAborting(src, order, mgr) ==
    LET dfs == ParsedFiles(src, order, Len(order))
        errs == ReadErrors(src, order, Len(order))
        df == Concat(dfs)
    IN IF dfs = <<>> \/ errs # <<>>
       THEN [df |-> EmptyFrame, errors |-> Append(errs, NoFilesError), files |-> order]
       ELSE IF ProcessingRaises(df)
       THEN [df |-> EmptyFrame, errors |-> Append(errs, ProcessError), files |-> order]
       ELSE [df |-> map_skus_in_df(mgr, Processed(df)), errors |-> errs,
             files |-> order]

\* the body of load_data (a cache miss), the files listed in this order:
\* [df, errors, files], files being the paths it opened
LoadDataBody(src, order, mgr) ==
    LET dfs == ParsedFiles(src, order, Len(order))
        errs == ReadErrors(src, order, Len(order))
        df == Concat(dfs)
    IN IF dfs = <<>>
       THEN [df |-> EmptyFrame, errors |-> Append(errs, NoFilesError), files |-> order]
       ELSE IF ProcessingRaises(df)
       THEN [df |-> EmptyFrame, errors |-> Append(errs, ProcessError), files |-> order]
       ELSE [df |-> map_skus_in_df(mgr, Processed(df)), errors |-> errs,
             files |-> order]

NoEntry == [cached |-> FALSE]

\* the key st.cache_data makes for a call of load_data: of its arguments,
\* those whose names do not start with an underscore, and it has none
LoadDataKey(files_hash) == <<>>

\* load_data without its cache: every call runs the body
load_data_uncached(cache, src, order, mgr, files_hash) ==
    LET b == LoadDataBody(src, order, mgr)
    IN [ret |-> [df |-> b.df, errors |-> b.errors, files |-> b.files,
                 hit |-> FALSE],
        cache |-> [df |-> b.df, errors |-> b.errors, cached |-> TRUE,
                   key |-> LoadDataKey(files_hash),
                   files_hash |-> files_hash]]

\* load_data(_sku_manager, _files_hash) behind @st.cache_data(ttl=None):
\* [ret, cache].  The entry keeps the key it was stored under and, as a
\* record of the call that made it, the _files_hash argument of that call.
load_data(cache, src, order, mgr, files_hash) ==
    IF cache.cached /\ cache.key = LoadDataKey(files_hash)
    THEN [ret |-> [df |-> cache.df, errors |-> cache.errors, files |-> <<>>,
                   hit |-> TRUE],
          cache |-> cache]
    ELSE LET b == LoadDataBody(src, order, mgr)
         IN [ret |-> [df |-> b.df, errors |-> b.errors, files |-> b.files,
                      hit |-> FALSE],
             cache |-> [df |-> b.df, errors |-> b.errors, cached |-> TRUE,
                        key |-> LoadDataKey(files_hash),
                        files_hash |-> files_hash]]

(***************************************************************************)
(* Inputs                                                                  *)
(***************************************************************************)
r1 == <<"r", "1">>
r1pad == <<" ", "r", "1", " ">>
r2 == <<"r", "2">>
r3 == <<"r", "3">>
W == <<"W">>
V == <<"V">>
Blank == <<" ">>
CA == <<"C", "A">>
NY == <<"N", "Y">>
NYpad == <<"N", "Y", " ">>
Cal == <<"C", "a", "l">>
Calpad == <<" ", "C", "a", "l">>
ZZ == <<"Z", "Z">>
Junk == <<"?">>

MapName == <<"M", "a", "p">>
Map2Name == <<"M", "a", "p", "2">>
StateName == <<"S", "T", "A", "T", "E">>
BadName == <<"A", "/", "B">>
CountsName == <<"N">>

SkuCols == <<"Merchant SKU", "SKU">>
StateCols == <<"State Code", "State Name">>

\* r1 (padded) -> W; r2 has no canonical SKU
Sku1 == [cols |-> SkuCols,
         rows |-> << <<Str(r1pad), Str(W)>>, <<Str(r2), NaN>> >>]
\* r1 -> V
Sku2 == [cols |-> SkuCols, rows |-> << <<Str(r1), Str(V)>> >>]
\* r3 has a canonical SKU cell of one space; r1 -> W
Sku3 == [cols |-> SkuCols,
         rows |-> << <<Str(r3), Str(Blank)>>, <<Str(r1), Str(W)>> >>]
\* a mapping sheet with a row left empty between two mappings
SkuGap == [cols |-> SkuCols,
           rows |-> << <<Str(r1), Str(W)>>, <<NaN, NaN>>, <<Str(r2), Str(V)>> >>]
\* a sheet of numbers with a row left empty and a cell left empty
Counts == [cols |-> <<"Units", "Packs">>,
           rows |-> << <<Num(1), Num(2)>>, <<NaN, NaN>>, <<Num(3), NaN>> >>]
\* CA "Cal", NY "NY"
State1 == [cols |-> StateCols,
           rows |-> << <<Str(CA), Str(Calpad)>>, <<Str(NYpad), Str(NY)>> >>]
\* the name of the second region is the code of the first
State2 == [cols |-> StateCols,
           rows |-> << <<Str(CA), Str(Cal)>>, <<Str(NY), Str(CA)>> >>]
\* a region sheet without the two columns
State3 == [cols |-> <<"Code", "State Name">>,
           rows |-> << <<Str(CA), Str(Cal)>> >>]
\* a region sheet whose code column is empty
State4 == [cols |-> StateCols, rows |-> << <<NaN, Str(Cal)>> >>]

Workbook(sheets) == [st |-> "ok", sheets |-> sheets]
Sh(name, data) == [name |-> name, data |-> data]

Absent == [st |-> "absent", sheets |-> <<>>]
Corrupt == [st |-> "corrupt", sheets |-> <<>>]

StartLegends ==
    { Absent, Corrupt,
      Workbook(<<Sh(MapName, Sku1), Sh(StateName, State1)>>),
      Workbook(<<Sh(MapName, Sku1), Sh(Map2Name, Sku2), Sh(StateName, State2)>>),
      Workbook(<<Sh(Map2Name, Sku2), Sh(MapName, Sku1)>>),
      Workbook(<<Sh(StateName, State3), Sh(MapName, Sku1)>>),
      Workbook(<<Sh(StateName, State4)>>),
      Workbook(<<Sh(StateName, State2)>>) }

OrderCols ==
    <<"Order ID", "Merchant SKU", "Purchase Date", "Item Price",
      "Item Promo Discount", "Shipped Quantity", "Shipping State">>

Oid(c) == Str(<<"o", c>>)

\* two orders of r1, the second shipped to an unknown region
CsvA ==
    [size |-> 2, readable |-> TRUE,
     data |-> [cols |-> OrderCols,
               rows |-> << <<Oid("1"), Str(r1pad), Ts(2023, 1, 15), Num(10), Num(2),
                             Num(1), Str(CA)>>,
                           <<Oid("2"), Str(r1), Ts(2023, 4, 20), Num(5), Num(0),
                             Num(2), Str(ZZ)>> >>]]
\* a region given by name and a price that is no number; then a row with no
\* SKU, a row with a blank SKU and a row with no timestamp
CsvB ==
    [size |-> 4, readable |-> TRUE,
     data |-> [cols |-> OrderCols,
               rows |-> << <<Oid("3"), Str(r2), Ts(2024, 1, 5), Str(Junk), NaN,
                             Num(1), Str(Calpad)>>,
                           <<Oid("4"), NaN, Ts(2024, 2, 1), Num(1), Num(0), Num(1),
                             Str(CA)>>,
                           <<Oid("5"), Str(Blank), Ts(2024, 2, 2), Num(1), Num(0),
                             Num(1), Str(CA)>>,
                           <<Oid("6"), Str(r3), NaN, Num(1), Num(0), Num(1),
                             Str(NY)>> >>]]
\* a timestamp that does not parse
CsvBadTs ==
    [size |-> 3, readable |-> TRUE,
     data |-> [cols |-> OrderCols,
               rows |-> << <<Oid("7"), Str(r1), Str(Junk), Num(1), Num(0), Num(1),
                             Str(CA)>>,
                           <<Oid("8"), Str(r1), Ts(2023, 7, 1), Num(1), Num(0),
                             Num(1), Str(NY)>> >>]]
\* no region column; the discount exceeds the price
CsvNoState ==
    [size |-> 1, readable |-> TRUE,
     data |-> [cols |-> SubSeq(OrderCols, 1, 6),
               rows |-> << <<Oid("9"), Str(r3), Ts(2023, 12, 31), Num(1), Num(3),
                             Num(1)>> >>]]
\* not a csv file read_csv can read
CsvUnreadable == [size |-> 5, readable |-> FALSE, data |-> EmptyFrame]
\* a file that reads, whose only row has no timestamp
CsvNoRows ==
    [size |-> 6, readable |-> TRUE,
     data |-> [cols |-> OrderCols,
               rows |-> << <<Oid("0"), Str(r1), NaN, Num(1), Num(0), Num(1),
                             Str(CA)>> >>]]

CsvContents == {CsvA, CsvB, CsvBadTs, CsvNoState, CsvUnreadable, CsvNoRows}

\* the tables load_data hands to map_skus_in_df
UnifiedFrames ==
    {Processed(Concat(<<ParsedFile(f)>>)) : f \in {CsvA, CsvB, CsvNoState}}
    \cup {Processed(Concat(<<ParsedFile(CsvB), ParsedFile(CsvNoState)>>))}

RawSkus == {Str(r1), Str(r1pad), Str(r2), Str(r3), Str(W)}
StateInputs == {NaN, Str(CA), Str(NYpad), Str(Calpad), Str(Cal), Str(ZZ), Str(NY),
                Str(NanText), Str(<<>>)}

(***************************************************************************)
(* The resolver at startup: SKUManager() on a workbook, then its lookups   *)
(***************************************************************************)
Startup(lg) ==
    LET b == SKUManager(<<>>, lg)
    IN /\ legend = b.legend
       /\ sheet_cache = b.cache
       /\ sku_manager = b.mgr

EmptySource == [exists |-> TRUE, files |-> <<>>]

InitResolver ==
    /\ \E lg \in StartLegends : Startup(lg)
    /\ source = EmptySource
    /\ data_cache = NoEntry
    /\ out = [op |-> "init"]

MapSku ==
    /\ \E raw \in RawSkus :
           out' = [op |-> "map_sku", arg |-> raw, ret |-> map_sku(sku_manager, raw)]
    /\ UNCHANGED <<legend, sheet_cache, sku_manager, source, data_cache>>

MapState ==
    /\ \E s \in StateInputs :
           out' = [op |-> "map_state", arg |-> s, ret |-> map_state(sku_manager, s)]
    /\ UNCHANGED <<legend, sheet_cache, sku_manager, source, data_cache>>

MapSkusInDf ==
    /\ \E df \in UnifiedFrames :
           out' = [op |-> "map_skus_in_df", arg |-> df,
                   ret |-> map_skus_in_df(sku_manager, df)]
    /\ UNCHANGED <<legend, sheet_cache, sku_manager, source, data_cache>>

NextResolver == MapSku \/ MapState \/ MapSkusInDf

SpecResolver == InitResolver /\ [][NextResolver]_vars

(***************************************************************************)
(* The reference store in use: managers are constructed (every run of      *)
(* app.py makes one), sheets are read and saved through them, the cache    *)
(* is cleared by the Refresh Data button.                                  *)
(***************************************************************************)
StoreLegends ==
    { Absent, Workbook(<<Sh(MapName, Sku1), Sh(StateName, State1)>>) }

\* what a caller may save: a sheet of the model, or the table it last read,
\* back to the sheet it read it from
SaveChoices ==
    { <<MapName, Sku1>>, <<MapName, Sku2>>, <<StateName, State1>>,
      <<StateName, State3>>, <<BadName, Sku2>> }
    \cup (IF out.op = "read" THEN {<<out.name, out.ret>>} ELSE {})

ReadNames == {MapName, StateName}

InitStore ==
    /\ \E lg \in StoreLegends : Startup(lg)
    /\ source = EmptySource
    /\ data_cache = NoEntry
    /\ out = [op |-> "init"]

\* app.py line 39: sku_manager = SKUManager()
NewManager ==
    LET b == SKUManager(sheet_cache, legend)
    IN /\ legend' = b.legend
       /\ sheet_cache' = b.cache
       /\ sku_manager' = b.mgr
       /\ out' = [op |-> "new"]
       /\ UNCHANGED <<source, data_cache>>

\* sku_manager.save_sheet_data(df, sheet_name)
ManagerSave ==
    \E c \in SaveChoices :
        LET w == mgr_save_sheet_data(sku_manager, sheet_cache, legend, c[2], c[1])
        IN /\ legend' = w.legend
           /\ sheet_cache' = w.cache
           /\ sku_manager' = w.mgr
           /\ out' = [op |-> "save", name |-> c[1], df |-> c[2], ok |-> w.ok]
           /\ UNCHANGED <<source, data_cache>>

UsState == <<"u", "s", " ", "s", "t", "a", "t", "e">>

\* the sheet get_sheet_data loads for a name
SheetAskedFor(mgr, sheet_name) ==
    IF Lower(sheet_name) = UsState /\ find_state_sheet(mgr.available_sheets) # NoSheet
    THEN find_state_sheet(mgr.available_sheets)
    ELSE sheet_name

\* sku_manager.get_sheet_data(sheet_name)
GetSheetData ==
    \E n \in ReadNames :
        LET name == SheetAskedFor(sku_manager, n)
        IN /\ sheet_cache' = CacheAfterLoad(sheet_cache, legend, name)
           /\ out' = [op |-> "read", name |-> n,
                      ret |-> load_sheet_data(sheet_cache, legend, name)]
           /\ UNCHANGED <<legend, sku_manager, source, data_cache>>

\* render_sidebar: st.cache_data.clear() empties the cache of every function
ClearCache ==
    /\ sheet_cache' = <<>>
    /\ data_cache' = NoEntry
    /\ out' = [op |-> "clear"]
    /\ UNCHANGED <<legend, sku_manager, source>>

NextStore == NewManager \/ ManagerSave \/ GetSheetData \/ ClearCache

SpecStore == InitStore /\ [][NextStore]_vars

(***************************************************************************)
(* The dashboard: app.py runs again and again while the files of the       *)
(* source directory come, change and go.                                   *)
(***************************************************************************)
MaxMtime == 2

AppLegend == Workbook(<<Sh(MapName, Sku1), Sh(StateName, State1)>>)

\* what may be put at each path
ContentsAt(p) ==
    IF p = "a.csv" THEN {CsvA, CsvBadTs} ELSE {CsvB}

FileOf(c, t) ==
    [mtime |-> t, size |-> c.size, readable |-> c.readable, data |-> c.data]

Init ==
    /\ Startup(AppLegend)
    /\ source = EmptySource
    /\ data_cache = NoEntry
    /\ out = [op |-> "init"]

\* a file is written to the source directory
WriteFile ==
    /\ source.exists
    /\ \E p \in Paths : \E c \in ContentsAt(p) : \E t \in 1..MaxMtime :
           source' = [source EXCEPT !.files = (p :> FileOf(c, t)) @@ @]
    /\ UNCHANGED <<legend, sheet_cache, sku_manager, data_cache, out>>

\* a file is removed from the source directory
RemoveFile ==
    /\ \E p \in DOMAIN source.files :
           source' = [source EXCEPT
                         !.files = [q \in DOMAIN source.files \ {p} |-> source.files[q]]]
    /\ UNCHANGED <<legend, sheet_cache, sku_manager, data_cache, out>>

\* the source directory is removed, or made again
ToggleSource ==
    /\ source' = [exists |-> ~source.exists, files |-> <<>>]
    /\ UNCHANGED <<legend, sheet_cache, sku_manager, data_cache, out>>

\* app.py lines 39-45: the manager is made, the files are hashed, load_data
\* is called; glob lists the files in an order of its own
RunApp ==
    LET b == SKUManager(sheet_cache, legend)
        source_files_hash == get_source_files_hash(source)
    IN \E order \in GlobOrders(source) :
           LET l == load_data(data_cache, source, order, b.mgr, source_files_hash)
           IN /\ legend' = b.legend
              /\ sheet_cache' = b.cache
              /\ sku_manager' = b.mgr
              /\ data_cache' = l.cache
              /\ out' = [op |-> "load", files_hash |-> source_files_hash,
                         source |-> source, ret |-> l.ret]
              /\ UNCHANGED source

Next == WriteFile \/ RemoveFile \/ ToggleSource \/ RunApp \/ ClearCache

Spec == Init /\ [][Next]_vars

(***************************************************************************)
(* The pipeline on its inputs: app.py run on a source directory and a      *)
(* workbook as it finds them                                               *)
(***************************************************************************)
PipelineLegends ==
    { AppLegend, Absent,
      Workbook(<<Sh(Map2Name, Sku2), Sh(MapName, Sku1)>>),
      Workbook(<<Sh(MapName, Sku3)>>),
      Workbook(<<Sh(StateName, State2)>>) }

\* the directories of at most one file per path, and the missing directory
PipelineSources ==
    {[exists |-> FALSE, files |-> <<>>]}
    \cup {[exists |-> TRUE, files |-> f] :
             f \in UNION {[ps -> {FileOf(c, 1) : c \in CsvContents}] :
                             ps \in SUBSET Paths}}

InitPipeline ==
    /\ \E lg \in PipelineLegends : Startup(lg)
    /\ source \in PipelineSources
    /\ data_cache = NoEntry
    /\ out = [op |-> "init"]

NextPipeline == RunApp \/ ClearCache

SpecPipeline == InitPipeline /\ [][NextPipeline]_vars

(***************************************************************************)
(* AggregationEngine: helpers.py.  The tables it is given are selections   *)
(* of the unified table: "SKU" is a text, "Year", "Month", "Revenue" and   *)
(* "Shipped Quantity" are whole numbers.  A value it computes is a         *)
(* rational Rat(n, d), an absent value NaN, or an infinity.                *)
(***************************************************************************)
Abs(n) == IF n < 0 THEN -n ELSE n

RECURSIVE Gcd(_, _)
Gcd(a, b) == IF b = 0 THEN a ELSE Gcd(b, a % b)

\* the number n / d (d # 0), in lowest terms with a positive denominator
Rat(n, d) ==
    LET g == Gcd(Abs(n), Abs(d))
        s == IF d < 0 THEN -1 ELSE 1
    IN [k |-> "num", n |-> (s * n) \div g, d |-> (s * d) \div g]

Inf == [k |-> "inf", sign |-> 1]
NegInf == [k |-> "inf", sign |-> -1]

\* Series.sum() of whole numbers
RECURSIVE SumSeq(_)
SumSeq(s) == IF s = <<>> THEN 0 ELSE SumSeq(SubSeq(s, 1, Len(s) - 1)) + s[Len(s)]

\* df[name].sum()
SumCol(df, name) == SumSeq([r \in 1..Len(df.rows) |-> Col(df, name)[r].n])

\* a non-negative whole number in decimal digits
RECURSIVE DecText(_)
DecText(n) ==
    IF n < 10 THEN <<Digits[n + 1]>>
    ELSE Append(DecText(n \div 10), Digits[(n % 10) + 1])

\* format spec ",": the digits in groups of three
RECURSIVE Grouped(_)
Grouped(n) ==
    IF n < 1000 THEN DecText(n)
    ELSE Grouped(n \div 1000)
           \o <<",", Digits[((n % 1000) \div 100) + 1],
                Digits[((n % 100) \div 10) + 1], Digits[(n % 10) + 1]>>

\* n / d (n >= 0, d > 0) rounded to a whole number, a tie going to the even one
RoundHalfEven(n, d) ==
    LET q == n \div d
        r == n % d
    IN IF 2 * r < d THEN q
       ELSE IF 2 * r > d THEN q + 1
       ELSE IF q % 2 = 0 THEN q ELSE q + 1

\* format spec ".2f" (with "," when grouped) of a rational
Fixed2(x, grouped) ==
    LET c == RoundHalfEven(100 * Abs(x.n), x.d)
        whole == c \div 100
    IN (IF x.n < 0 THEN <<"-">> ELSE <<>>)
         \o (IF grouped THEN Grouped(whole) ELSE DecText(whole))
         \o <<".", Digits[((c % 100) \div 10) + 1], Digits[(c % 10) + 1]>>

\* format spec "," of a count; a float column sums to a float, printed "n.0"
Count(n, float) ==
    (IF n < 0 THEN <<"-">> ELSE <<>>) \o Grouped(Abs(n))
      \o (IF float THEN <<".", "0">> ELSE <<>>)

\* calculate_metrics averaging over the distinct rows of the table
MetricValuesDistinct(filtered_df) ==
    LET total_revenue == SumCol(filtered_df, "Revenue")
        total_orders == Len(filtered_df.rows)
        distinct == Cardinality({filtered_df.rows[r] : r \in 1..total_orders})
    IN [total_revenue |-> total_revenue,
        total_orders |-> total_orders,
        avg_order_value |-> IF total_orders > 0
                            THEN Rat(total_revenue, distinct) ELSE Rat(0, 1),
        total_units |-> SumCol(filtered_df, "Shipped Quantity")]

\* lines 51-54 of calculate_metrics: the four values before formatting
MetricValues(filtered_df) ==
    LET total_revenue == SumCol(filtered_df, "Revenue")
        total_orders == Len(filtered_df.rows)
    IN [total_revenue |-> total_revenue,
        total_orders |-> total_orders,
        avg_order_value |-> IF total_orders > 0
                            THEN Rat(total_revenue, total_orders) ELSE Rat(0, 1),
        total_units |-> SumCol(filtered_df, "Shipped Quantity")]

\* calculate_metrics(filtered_df): the dictionary of formatted values;
\* qty_float tells that "Shipped Quantity" is a float64 column
calculate_metrics(filtered_df, qty_float) ==
    LET v == MetricValues(filtered_df)
    IN [TotalRevenue |-> <<"$">> \o Fixed2(Rat(v.total_revenue, 1), TRUE),
        TotalOrders |-> Count(v.total_orders, FALSE),
        AverageOrderValue |-> <<"$">> \o Fixed2(v.avg_order_value, FALSE),
        UnitsSold |-> Count(v.total_units, qty_float)]

\* the characters of the model in code point order
Ascii ==
    <<" ", "-", "/", "0", "1", "2", "3", "4", "5", "6", "7", "8", "9", "?",
      "A", "B", "C", "D", "E", "F", "G", "H", "I", "J", "K", "L", "M", "N", "O",
      "P", "Q", "R", "S", "T", "U", "V", "W", "X", "Y", "Z", "_",
      "a", "b", "c", "d", "e", "f", "g", "h", "i", "j", "k", "l", "m", "n", "o",
      "p", "q", "r", "s", "t", "u", "v", "w", "x", "y", "z">>

CharRank(c) == CHOOSE i \in 1..Len(Ascii) : Ascii[i] = c

\* a < b as Python compares two strings
TextLess(a, b) ==
    \E i \in 1..Len(b) :
        /\ \A j \in 1..(i - 1) : j <= Len(a) /\ a[j] = b[j]
        /\ \/ Len(a) = i - 1
           \/ i <= Len(a) /\ CharRank(a[i]) < CharRank(b[i])

\* add_quarter: 'Q' + ((Month - 1) // 3 + 1).astype(str)
QuarterOf(month) == <<"Q", Digits[((month - 1) \div 3 + 1) + 1]>>

\* the rows of the table as records, with their quarter
QuarterRows(df) ==
    [r \in 1..Len(df.rows) |->
        [SKU |-> Col(df, "SKU")[r].v,
         Year |-> Col(df, "Year")[r].n,
         Quarter |-> QuarterOf(Col(df, "Month")[r].n),
         Revenue |-> Col(df, "Revenue")[r].n,
         Quantity |-> Col(df, "Shipped Quantity")[r].n]]

NoSku == <<>>

\* the group a row falls in: (SKU, Year, Quarter), or (Year, Quarter)
GroupKey(row, by_sku) ==
    [SKU |-> IF by_sku THEN row.SKU ELSE NoSku, Year |-> row.Year,
     Quarter |-> row.Quarter]

\* the groups sorted by their quarter label before their year
GroupBeforeByLabel(a, b) ==
    \/ TextLess(a.Quarter, b.Quarter)
    \/ a.Quarter = b.Quarter /\ a.Year < b.Year
    \/ a.Year = b.Year /\ a.Quarter = b.Quarter /\ TextLess(a.SKU, b.SKU)

\* sort_values(['Year', 'Quarter']) on the groups, which groupby left in the
\* order of their keys: a stable sort
GroupBefore(a, b) ==
    \/ a.Year < b.Year
    \/ a.Year = b.Year /\ TextLess(a.Quarter, b.Quarter)
    \/ a.Year = b.Year /\ a.Quarter = b.Quarter /\ TextLess(a.SKU, b.SKU)

\* the groups of the table in the order of the sorted result
SortedGroups(rows, by_sku) ==
    LET keys == {GroupKey(rows[r], by_sku) : r \in 1..Len(rows)}
        rank(k) == 1 + Cardinality({j \in keys : GroupBefore(j, k)})
    IN [i \in 1..Cardinality(keys) |-> CHOOSE k \in keys : rank(k) = i]

\* the sum of a field over the rows of a group
GroupSum(rows, by_sku, key, revenue) ==
    LET in == Pick(rows, {r \in 1..Len(rows) : GroupKey(rows[r], by_sku) = key})
    IN SumSeq([i \in 1..Len(in) |->
                  IF revenue THEN in[i].Revenue ELSE in[i].Quantity])

\* 'SKU': 'nunique' over the rows of a group
GroupSkus(rows, by_sku, key) ==
    Cardinality({rows[r].SKU : r \in {x \in 1..Len(rows) :
                                         GroupKey(rows[x], by_sku) = key}})

\* pct_change() * 100 for one row: current / previous - 1 in floating point,
\* where a division by zero gives an infinity and 0 / 0 gives NaN
PctChange(cur, prev) ==
    IF prev # 0 THEN Rat((cur - prev) * 100, prev)
    ELSE IF cur > 0 THEN Inf
    ELSE IF cur < 0 THEN NegInf
    ELSE NaN

\* the growth computed over the whole result as one partition
PartitionWhole(key, by_sku) == 0

\* the partition a result row belongs to for the growth: SKU or Year
Partition(key, by_sku) == IF by_sku THEN key.SKU ELSE key.Year

\* groupby(partition)[column].pct_change() * 100 for row i of the result
Growth(groups, values, by_sku, i) ==
    LET before == {j \in 1..(i - 1) :
                      Partition(groups[j], by_sku) = Partition(groups[i], by_sku)}
    IN IF before = {} THEN NaN
       ELSE LET prev == CHOOSE j \in before : \A x \in before : x <= j
            IN PctChange(values[i], values[prev])

\* calculate_quarterly_metrics(filtered_df, by_sku)
calculate_quarterly_metrics(filtered_df, by_sku) ==
    LET rows == QuarterRows(filtered_df)
        groups == SortedGroups(rows, by_sku)
        n == Len(groups)
        revenue == [i \in 1..n |-> GroupSum(rows, by_sku, groups[i], TRUE)]
        units == [i \in 1..n |-> GroupSum(rows, by_sku, groups[i], FALSE)]
        common(i) == [Year |-> groups[i].Year,
                      Quarter |-> groups[i].Quarter,
                      TotalRevenue |-> revenue[i],
                      UnitsSold |-> units[i],
                      Revenue_Growth |-> Growth(groups, revenue, by_sku, i),
                      Units_Growth |-> Growth(groups, units, by_sku, i)]
    IN [i \in 1..n |->
           IF by_sku THEN [SKU |-> groups[i].SKU] @@ common(i)
           ELSE [UniqueSKUs |-> GroupSkus(rows, by_sku, groups[i])] @@ common(i)]

\* DataFrame.round(2) of n / d: to the nearest hundredth, a tie to the even one
Round2(n, d) ==
    LET c == RoundHalfEven(100 * Abs(n), d)
    IN Rat(IF n < 0 THEN -c ELSE c, 100)

TotalLabel == <<"T", "O", "T", "A", "L">>

\* groupby('SKU').agg(...).round(2): one row for each SKU
SkuRow(rows, sku) ==
    LET in == Pick(rows, {r \in 1..Len(rows) : rows[r].SKU = sku})
        revenue == SumSeq([i \in 1..Len(in) |-> in[i].Revenue])
    IN [SKU |-> sku,
        TotalRevenue |-> revenue,
        AvgRevenuePerOrder |-> Round2(revenue, Len(in)),
        UnitsSold |-> SumSeq([i \in 1..Len(in) |-> in[i].Quantity])]

\* sort_values('Total Revenue', ascending=False) on the rows that groupby
\* left in the order of their SKUs; equal totals keep that order
SkuRowBefore(a, b) ==
    \/ a.TotalRevenue > b.TotalRevenue
    \/ a.TotalRevenue = b.TotalRevenue /\ TextLess(a.SKU, b.SKU)

SortedSkuRows(rows) ==
    LET groups == {SkuRow(rows, rows[r].SKU) : r \in 1..Len(rows)}
        rank(g) == 1 + Cardinality({h \in groups : SkuRowBefore(h, g)})
    IN [i \in 1..Cardinality(groups) |-> CHOOSE g \in groups : rank(g) = i]

\* get_sku_metrics with the average of the totals row taken over the SKUs
get_sku_metrics_per_sku(filtered_df) ==
    LET rows == QuarterRows(filtered_df)
        sku_metrics == SortedSkuRows(rows)
        n == Len(sku_metrics)
        revenue == SumSeq([i \in 1..n |-> sku_metrics[i].TotalRevenue])
        totals == [SKU |-> TotalLabel,
                   TotalRevenue |-> revenue,
                   AvgRevenuePerOrder |->
                       IF n > 0 THEN Rat(revenue, n) ELSE Rat(0, 1),
                   UnitsSold |-> SumSeq([i \in 1..n |-> sku_metrics[i].UnitsSold])]
    IN Append(sku_metrics, totals)

\* get_sku_metrics(filtered_df): the rows of the SKUs and the totals row
get_sku_metrics(filtered_df) ==
    LET rows == QuarterRows(filtered_df)
        sku_metrics == SortedSkuRows(rows)
        n == Len(sku_metrics)
        revenue == SumSeq([i \in 1..n |-> sku_metrics[i].TotalRevenue])
        totals == [SKU |-> TotalLabel,
                   TotalRevenue |-> revenue,
                   AvgRevenuePerOrder |->
                       IF Len(rows) > 0 THEN Rat(revenue, Len(rows)) ELSE Rat(0, 1),
                   UnitsSold |-> SumSeq([i \in 1..n |-> sku_metrics[i].UnitsSold])]
    IN Append(sku_metrics, totals)

(***************************************************************************)
(* The aggregations on selections of the unified table, as app.py calls    *)
(* them on filtered_df                                                     *)
(***************************************************************************)
MaxRows == 3

AggCols == <<"SKU", "Year", "Month", "Revenue", "Shipped Quantity">>

OrderRow(sku, year, month, revenue, quantity) ==
    <<Str(sku), Num(year), Num(month), Num(revenue), Num(quantity)>>

\* W sells 100 in Q1 2023, 150 in Q2 2023 and 80 in Q1 2024; V has an order of
\* no revenue in Q1 2023, a refund in Q4 2023 and an order of no unit in 2024
OrderRows ==
    { OrderRow(W, 2023, 1, 100, 1), OrderRow(W, 2023, 4, 150, 2),
      OrderRow(V, 2023, 2, 0, 0), OrderRow(W, 2024, 1, 80, 1),
      OrderRow(V, 2024, 5, 10, 0), OrderRow(V, 2023, 12, -2, 1) }

\* filtered_df at the start: the filters of app.py select no row
NoRows == [cols |-> AggCols, rows |-> <<>>]

InitAgg ==
    /\ Startup(AppLegend)
    /\ source = EmptySource
    /\ data_cache = NoEntry
    /\ out = [op |-> "filter", df |-> NoRows]

\* app.py lines 156-187: the filters are widened and filtered_df takes in one
\* more row of the unified table (an order may be in it more than once)
Filter ==
    /\ Len(out.df.rows) < MaxRows
    /\ \E row \in OrderRows :
           out' = [op |-> "filter",
                   df |-> [out.df EXCEPT !.rows = Append(@, row)]]
    /\ UNCHANGED <<legend, sheet_cache, sku_manager, source, data_cache>>

\* app.py line 208: calculate_metrics(filtered_df)
CalculateMetrics ==
    /\ \E qty_float \in BOOLEAN :
           out' = [op |-> "calculate_metrics", df |-> out.df,
                   qty_float |-> qty_float,
                   values |-> MetricValues(out.df),
                   ret |-> calculate_metrics(out.df, qty_float)]
    /\ UNCHANGED <<legend, sheet_cache, sku_manager, source, data_cache>>

\* app.py line 261: calculate_quarterly_metrics(filtered_df, by_sku=...)
CalculateQuarterlyMetrics ==
    /\ \E by_sku \in BOOLEAN :
           out' = [op |-> "calculate_quarterly_metrics", df |-> out.df,
                   by_sku |-> by_sku,
                   ret |-> calculate_quarterly_metrics(out.df, by_sku)]
    /\ UNCHANGED <<legend, sheet_cache, sku_manager, source, data_cache>>

\* app.py line 315: get_sku_metrics(filtered_df)
GetSkuMetrics ==
    /\ out' = [op |-> "get_sku_metrics", df |-> out.df,
               ret |-> get_sku_metrics(out.df)]
    /\ UNCHANGED <<legend, sheet_cache, sku_manager, source, data_cache>>

NextAgg == Filter \/ CalculateMetrics \/ CalculateQuarterlyMetrics \/ GetSkuMetrics

SpecAgg == InitAgg /\ [][NextAgg]_vars

(***************************************************************************)
(* Properties of the resolver                                              *)
(***************************************************************************)
Applied == out.op = "map_skus_in_df"

\* the rows of the argument whose raw region map_state resolves
Resolving(mgr, df) ==
    {r \in 1..Len(df.rows) : ~IsNa(map_state(mgr, Col(df, "Shipping State")[r]))}

RegionFiltered(mgr, df) ==
    HasCol(df, "Shipping State") /\ mgr.valid_state_codes # {}

\* C4: when the table has a region column and the valid region code set is
\* not empty, map_skus_in_df keeps exactly the rows whose raw region map_state
\* resolves, in their order, and every region of its output is a valid code.
C4_RegionRowsKept ==
    (Applied /\ RegionFiltered(sku_manager, out.arg)) =>
        /\ Col(out.ret, "Order ID")
             = Pick(Col(out.arg, "Order ID"), Resolving(sku_manager, out.arg))
        /\ \A r \in 1..Len(out.ret.rows) :
               Col(out.ret, "Shipping State")[r] \in sku_manager.valid_state_codes

\* a table with a region column went through a resolver with valid codes,
\* which kept a row and dropped another
C4_Witness ==
    /\ Applied /\ RegionFiltered(sku_manager, out.arg)
    /\ Len(out.ret.rows) > 0
    /\ Len(out.ret.rows) < Len(out.arg.rows)

\* the region-reference sheet of the workbook, if any, lacks a column
NoRegionTable(lg) ==
    LET names == get_sheet_names(lg)
        st == find_state_sheet(names)
    IN \/ st = NoSheet
       \/ ~HasCol(SheetData(lg.sheets, st), "State Code")
       \/ ~HasCol(SheetData(lg.sheets, st), "State Name")

\* C5: built on a workbook with no region-reference sheet, or with one that
\* lacks the code or the name column, the resolver has an empty region lookup
\* and an empty valid set, and map_skus_in_df returns the rows of its argument
\* in their order with every column of the argument, the region included,
\* unchanged.
C5_NoRegionNoFilter ==
    NoRegionTable(legend) =>
        /\ sku_manager.state_name_to_code = <<>>
        /\ sku_manager.valid_state_codes = {}
        /\ Applied =>
               /\ Len(out.ret.rows) = Len(out.arg.rows)
               /\ \A c \in 1..Len(out.arg.cols) :
                      Col(out.ret, out.arg.cols[c]) = Col(out.arg, out.arg.cols[c])

\* a table with regions no reference sheet could resolve went through a
\* resolver built without a region table
C5_Witness ==
    /\ NoRegionTable(legend)
    /\ Applied /\ HasCol(out.arg, "Shipping State")
    /\ \E r \in 1..Len(out.ret.rows) : Col(out.ret, "Shipping State")[r] = Str(ZZ)

\* the canonical SKU of a raw SKU: the mapped one for a key, else the raw one
Canonical(mgr, raw) ==
    IF raw \in DOMAIN mgr.sku_mapping THEN mgr.sku_mapping[raw] ELSE raw

\* the rows map_skus_in_df may drop are those whose region does not resolve
KeptRows(mgr, df) ==
    IF RegionFiltered(mgr, df) THEN Resolving(mgr, df) ELSE 1..Len(df.rows)

\* C6: map_sku returns the raw SKU for a SKU that is no key of the SKU map
\* and the mapped canonical SKU for a key; map_skus_in_df gives every row
\* that canonical SKU and drops no row on account of its SKU.
C6_SkuFallback ==
    /\ out.op = "map_sku" => out.ret = Canonical(sku_manager, out.arg)
    /\ Applied =>
           LET kept == Pick([r \in 1..Len(out.arg.rows) |-> r],
                            KeptRows(sku_manager, out.arg))
           IN /\ Len(out.ret.rows) = Len(kept)
              /\ \A j \in 1..Len(kept) :
                     /\ Col(out.ret, "Order ID")[j] = Col(out.arg, "Order ID")[kept[j]]
                     /\ Col(out.ret, "Merchant SKU")[j]
                          = Col(out.arg, "Merchant SKU")[kept[j]]
                     /\ Col(out.ret, "SKU")[j]
                          = Canonical(sku_manager, Col(out.arg, "Merchant SKU")[kept[j]])

\* the output holds a row whose raw SKU is no key, kept with its raw SKU, and
\* a row whose raw SKU is a key
C6_Witness ==
    /\ Applied
    /\ \E j \in 1..Len(out.ret.rows) :
           /\ Col(out.ret, "Merchant SKU")[j] \notin DOMAIN sku_manager.sku_mapping
           /\ Col(out.ret, "SKU")[j] = Col(out.ret, "Merchant SKU")[j]
    /\ \E j \in 1..Len(out.ret.rows) :
           /\ Col(out.ret, "Merchant SKU")[j] \in DOMAIN sku_manager.sku_mapping
           /\ Col(out.ret, "SKU")[j] # Col(out.ret, "Merchant SKU")[j]

\* the region table the resolver is built on: the region-reference sheet as
\* load_sheet_data reads it from the workbook, when it has both columns
RegionTable(lg) ==
    LET st == find_state_sheet(get_sheet_names(lg))
        d == IF st = NoSheet THEN EmptyFrame ELSE LoadSheetBody(lg, st)
    IN IF IsStateSheet(d) THEN d ELSE EmptyFrame

RegionCodes(lg) ==
    LET d == RegionTable(lg)
    IN {Str(Strip(Col(d, "State Code")[r].v)) : r \in 1..Len(d.rows)}

RegionNames(lg) ==
    LET d == RegionTable(lg)
    IN {Str(Strip(Col(d, "State Name")[r].v)) : r \in 1..Len(d.rows)}

\* the codes of the rows of the region table with that name
CodesNamed(lg, name) ==
    LET d == RegionTable(lg)
    IN {Str(Strip(Col(d, "State Code")[r].v)) :
           r \in {q \in 1..Len(d.rows) : Str(Strip(Col(d, "State Name")[q].v)) = name}}

Trimmed(c) == Str(Strip(AsTypeStr(c)))

\* what C7 says of every input, whatever it is
C7_Common ==
    out.op = "map_state" =>
        /\ IsNa(out.ret) \/ out.ret \in sku_manager.valid_state_codes
        /\ sku_manager.valid_state_codes = RegionCodes(legend)
        /\ IsNa(out.arg) => IsNa(out.ret)
        /\ (~IsNa(out.arg) /\ Trimmed(out.arg) \notin RegionNames(legend)
                           /\ Trimmed(out.arg) \notin RegionCodes(legend))
               => IsNa(out.ret)
        /\ (~IsNa(out.arg) /\ Trimmed(out.arg) \in RegionCodes(legend))
               => out.ret = Trimmed(out.arg)

\* C7 as stated: map_state returns absent or a valid region code: absent for
\* a missing input and for one whose trimmed value is neither a region name
\* nor a region code of the reference sheet, the code of that name for a
\* region name, the code itself for a region code.
C7_AsStated ==
    /\ C7_Common
    /\ (out.op = "map_state" /\ ~IsNa(out.arg)
                             /\ Trimmed(out.arg) \in RegionNames(legend))
           => out.ret \in CodesNamed(legend, Trimmed(out.arg))

\* C7 amended: as stated, except that a region name that is also a region
\* code resolves to itself; the code of its name is returned for a region
\* name that is no region code.
C7_CodeBeforeName ==
    /\ C7_Common
    /\ (out.op = "map_state" /\ ~IsNa(out.arg)
                             /\ Trimmed(out.arg) \in RegionNames(legend)
                             /\ Trimmed(out.arg) \notin RegionCodes(legend))
           => out.ret \in CodesNamed(legend, Trimmed(out.arg))

\* a padded region name that is no code was resolved to the code of its row
C7_Witness ==
    /\ out.op = "map_state" /\ ~IsNa(out.arg)
    /\ Trimmed(out.arg) # out.arg
    /\ Trimmed(out.arg) \in RegionNames(legend)
    /\ Trimmed(out.arg) \notin RegionCodes(legend)
    /\ out.ret \in CodesNamed(legend, Trimmed(out.arg))

(***************************************************************************)
(* Properties of the reference store                                       *)
(***************************************************************************)
\* C8: a successful save of a sheet leaves every other sheet the workbook
\* had in it, with the same rows and cells.
C8_OtherSheetsUnchanged ==
    [][(out'.op = "save" /\ out'.ok) =>
          \A i \in 1..Len(legend.sheets) :
              legend.sheets[i].name # out'.name =>
                  /\ HasSheet(legend'.sheets, legend.sheets[i].name)
                  /\ SheetData(legend'.sheets, legend.sheets[i].name)
                       = legend.sheets[i].data]_vars

\* a cell holds something: it is not missing, not blank, and not a string
\* the workbook reads back as missing
NonEmptyCell(c) == ~IsNa(c) /\ Strip(AsTypeStr(c)) \notin NaTexts

\* the non-empty cells of a table, trimmed, each with its column, row by row;
\* the rows without any are left out
NonEmptyCells(df) ==
    LET cells(r) == {<<df.cols[i], Strip(AsTypeStr(df.rows[r][i]))>> :
                        i \in {j \in 1..Len(df.cols) : NonEmptyCell(df.rows[r][j])}}
        rows == [r \in 1..Len(df.rows) |-> cells(r)]
    IN Pick(rows, {r \in 1..Len(rows) : rows[r] # {}})

\* C9: a read of the sheet that follows its successful save returns the
\* non-empty cells of the saved data, trimmed, whatever was read or saved
\* before.
C9_ReadReturnsWritten ==
    [][(out.op = "save" /\ out.ok /\ out'.op = "read" /\ out'.name = out.name) =>
          NonEmptyCells(out'.ret) = NonEmptyCells(out.df)]_vars

\* C10: after a successful SKUManager.save_sheet_data the resolver is the one
\* the constructor builds on the workbook as written: its sheet list, SKU
\* map, region lookup and valid region codes.
C10_RebuiltFromWrittenStore ==
    (out.op = "save" /\ out.ok) => sku_manager = SKUManager(<<>>, legend).mgr

(***************************************************************************)
(* Properties of the ingestion pipeline and its cache                      *)
(***************************************************************************)
Loaded == out.op = "load"

\* C1: a call of load_data made with a fingerprint other than the one the
\* cached table was computed under recomputes the table; said of the calls
\* that do return the cached table: their fingerprint is the one it was
\* computed under.
C1_ChangedFingerprintRecomputes ==
    (Loaded /\ out.ret.hit) => data_cache.files_hash = out.files_hash

\* this step is a run of app.py: the files stay, load_data has returned
IsRunApp == out'.op = "load" /\ source' = source

\* C2: of two calls of load_data in a row with the same files in the source
\* directory, the second returns the table the first returned, from the
\* cache: it opens no file.
C2_SecondCallIsCacheHit ==
    [][(Loaded /\ IsRunApp /\ out.source = source) =>
          /\ out'.ret.hit
          /\ out'.ret.files = <<>>
          /\ out'.ret.df = out.ret.df]_vars

\* a call returned from the cache the table computed from the files that are
\* still there, and the table has rows
C2_Witness ==
    /\ Loaded /\ out.ret.hit /\ out.source = source
    /\ data_cache.files_hash = out.files_hash
    /\ Len(out.ret.df.rows) > 0

\* the files of a directory
FilesIn(src) == IF src.exists THEN DOMAIN src.files ELSE {}

\* the combined table of these files goes through the region filter
FilterApplies(mgr, src) ==
    /\ mgr.valid_state_codes # {}
    /\ \E p \in FilesIn(src) :
           FileParses(src.files[p]) /\ HasCol(src.files[p].data, "Shipping State")

\* row r of a file that parses is one load_data retains: it has a timestamp
\* and a SKU that is not blank, and its region resolves where regions count
Retained(mgr, src, f, r) ==
    LET sku == Col(f.data, "Merchant SKU")[r]
        state == IF HasCol(f.data, "Shipping State")
                 THEN Col(f.data, "Shipping State")[r] ELSE NaN
    IN /\ ~IsNa(Col(f.data, "Purchase Date")[r])
       /\ ~IsNa(sku) /\ Strip(sku.v) # <<>>
       /\ FilterApplies(mgr, src) => ~IsNa(map_state(mgr, state))

\* how many retained rows of the file carry that order id
RetainedWith(mgr, src, p, id) ==
    LET f == src.files[p]
    IN IF p \in FilesIn(src) /\ FileParses(f) /\ HasCol(f.data, "Order ID")
       THEN Cardinality({r \in 1..Len(f.data.rows) :
                            Col(f.data, "Order ID")[r] = id
                            /\ Retained(mgr, src, f, r)})
       ELSE 0

RECURSIVE RetainedInAll(_, _, _, _)
RetainedInAll(mgr, src, id, n) ==
    IF n = 0 THEN 0
    ELSE RetainedInAll(mgr, src, id, n - 1) + RetainedWith(mgr, src, PathOrder[n], id)

RowsWith(df, id) ==
    IF HasCol(df, "Order ID")
    THEN Cardinality({r \in 1..Len(df.rows) : Col(df, "Order ID")[r] = id}) ELSE 0

OrderIds == {Oid(c) : c \in {"0", "1", "2", "3", "4", "5", "6", "7", "8", "9"}}

C11_FailedWriteKeepsOtherSheets ==
    [][(out'.op = "save" /\ ~out'.ok /\ legend.st = "ok") =>
          /\ legend'.st = "ok"
          /\ \A i \in 1..Len(legend.sheets) :
                legend.sheets[i].name # out'.name =>
                    /\ HasSheet(legend'.sheets, legend.sheets[i].name)
                    /\ SheetData(legend'.sheets, legend.sheets[i].name)
                         = legend.sheets[i].data]_vars

\* C12: every row of the table load_data returns has a year and a canonical
\* SKU that is a text with something other than whitespace in it.
C12_RowsHaveYearAndSku ==
    (Loaded /\ Len(out.ret.df.rows) > 0) =>
        /\ HasCol(out.ret.df, "Year") /\ HasCol(out.ret.df, "SKU")
        /\ \A r \in 1..Len(out.ret.df.rows) :
              /\ ~IsNa(Col(out.ret.df, "Year")[r])
              /\ IsStr(Col(out.ret.df, "SKU")[r])
              /\ Strip(Col(out.ret.df, "SKU")[r].v) # <<>>

\* the directory gives load_data no file to read
NoInput(src) == FilesIn(src) = {}

\* what load_data returns when it finds no file: a table without columns and
\* the one diagnostic "No CSV files found"
NoInputOutcome(ret) == ret.df = EmptyFrame /\ ret.errors = <<NoFilesError>>

\* the directory holds files and the pipeline draws no row from them
NoValidRow(src, mgr) ==
    /\ ~NoInput(src)
    /\ \A order \in GlobOrders(src) : Len(LoadDataBody(src, order, mgr).df.rows) = 0

\* C13: the two empty outcomes of load_data can be told apart: with no
\* directory or no file the call returns the outcome of "no file"; with
\* files that yield no row it returns an empty table that differs from it,
\* in the table or in the diagnostics.
C13_EmptyOutcomesDistinct ==
    Loaded =>
        /\ NoInput(out.source) => NoInputOutcome(out.ret)
        /\ NoValidRow(out.source, sku_manager) =>
               Len(out.ret.df.rows) = 0 /\ ~NoInputOutcome(out.ret)

(***************************************************************************)
(* Properties of the aggregations                                          *)
(***************************************************************************)
\* how many times the row is in the table
Occurs(df, row) == Cardinality({r \in 1..Len(df.rows) : df.rows[r] = row})

\* the sum of a column over the orders of S, each counted as often as it is
\* in the table
RECURSIVE TotalOver(_, _, _)
TotalOver(S, df, c) ==
    IF S = {} THEN 0
    ELSE LET row == CHOOSE x \in S : TRUE
         IN Occurs(df, row) * row[ColIdx(df, c)].n + TotalOver(S \ {row}, df, c)

ZeroMoney == <<"$", "0", ".", "0", "0">>

\* C14: calculate_metrics computes the sum of the revenues, the number of
\* rows, the sum of the quantities, and the revenue sum divided by the number
\* of rows, or 0 when the table has no row; for a table without rows it
\* returns zero for all four.
C14_TopLineMetrics ==
    out.op = "calculate_metrics" =>
        LET n == Len(out.df.rows)
            v == out.values
        IN /\ v.total_revenue = TotalOver(OrderRows, out.df, "Revenue")
           /\ v.total_orders = n
           /\ v.total_units = TotalOver(OrderRows, out.df, "Shipped Quantity")
           /\ n > 0 => v.avg_order_value.n * n = v.total_revenue * v.avg_order_value.d
           /\ n = 0 =>
                 /\ v.avg_order_value.n = 0
                 /\ out.ret.TotalRevenue = ZeroMoney
                 /\ out.ret.TotalOrders = <<"0">>
                 /\ out.ret.AverageOrderValue = ZeroMoney
                 /\ out.ret.UnitsSold \in {<<"0">>, <<"0", ".", "0">>}

\* the metrics of three rows, one order twice, whose average is no whole
\* number
C14_Witness ==
    /\ out.op = "calculate_metrics"
    /\ Len(out.df.rows) = 3
    /\ \E row \in OrderRows : Occurs(out.df, row) = 2
    /\ out.values.avg_order_value.d = 3
    /\ out.ret.TotalOrders = <<"3">>

Quarterly == out.op = "calculate_quarterly_metrics"

\* the partition of a row of the result: its SKU when grouping by SKU, its
\* year otherwise
PartOf(row) == IF out.by_sku THEN row.SKU ELSE row.Year

\* row i of the result is the first of its partition
FirstOfPartition(i) == \A j \in 1..(i - 1) : PartOf(out.ret[j]) # PartOf(out.ret[i])

\* C15: in the result of calculate_quarterly_metrics the first row of each
\* partition (SKU when grouping by SKU, year otherwise) has no revenue
\* growth and no units growth.
C15_FirstOfPartitionAbsent ==
    Quarterly =>
        \A i \in 1..Len(out.ret) :
            FirstOfPartition(i) =>
                IsNa(out.ret[i].Revenue_Growth) /\ IsNa(out.ret[i].Units_Growth)

\* not grouping by SKU, the first quarter of 2024 has no growth although the
\* result has a quarter of 2023 before it, with revenue
C15_Witness ==
    /\ Quarterly /\ ~out.by_sku
    /\ \E i \in 2..Len(out.ret) :
           /\ out.ret[i].Year = 2024 /\ FirstOfPartition(i)
           /\ out.ret[i - 1].Year = 2023 /\ out.ret[i - 1].TotalRevenue > 0
           /\ IsNa(out.ret[i].Revenue_Growth)

SkuMetrics == out.op = "get_sku_metrics"

\* the canonical SKUs of the table
SkusOf(df) == {Col(df, "SKU")[r].v : r \in 1..Len(df.rows)}

\* C16: the result of get_sku_metrics has one row for each SKU of the table,
\* by total revenue from the highest to the lowest, and after them one row
\* labelled TOTAL: the sum of their revenues, the sum of their units, and
\* that revenue sum divided by the number of rows of the table (0 for a
\* table without rows).
C16_SkuMetricsTotal ==
    SkuMetrics =>
        LET n == Len(out.ret) - 1
            rows == Len(out.df.rows)
            total == out.ret[n + 1]
            revenue == SumSeq([i \in 1..n |-> out.ret[i].TotalRevenue])
        IN /\ n = Cardinality(SkusOf(out.df))
           /\ {out.ret[i].SKU : i \in 1..n} = SkusOf(out.df)
           /\ \A i \in 1..(n - 1) :
                 out.ret[i].TotalRevenue >= out.ret[i + 1].TotalRevenue
           /\ total.SKU = TotalLabel
           /\ total.TotalRevenue = revenue
           /\ total.UnitsSold = SumSeq([i \in 1..n |-> out.ret[i].UnitsSold])
           /\ rows > 0 =>
                 total.AvgRevenuePerOrder.n * rows
                   = revenue * total.AvgRevenuePerOrder.d
           /\ rows = 0 => total.AvgRevenuePerOrder.n = 0

\* two SKUs, three rows: the average of the totals row is the revenue over
\* three, which is not the revenue over the two SKUs
C16_Witness ==
    /\ SkuMetrics
    /\ Len(out.ret) = 3 /\ Len(out.df.rows) = 3
    /\ out.ret[1].TotalRevenue > out.ret[2].TotalRevenue
    /\ out.ret[3].SKU = TotalLabel
    /\ out.ret[3].AvgRevenuePerOrder.d = 3

\* read_csv reads the file and it has the two columns the per-file block uses
OtherwiseReadable(f) ==
    f.readable /\ HasCol(f.data, "Purchase Date") /\ HasCol(f.data, "Merchant SKU")

\* the timestamp of row r of the file parses
TimestampParses(f, r) == Col(f.data, "Purchase Date")[r].k = "ts"

\* apart from its timestamp, nothing has row r of the file dropped: its SKU
\* is not blank, and its region resolves if the resolver has regions
KeptButForTimestamp(mgr, f, r) ==
    LET sku == Col(f.data, "Merchant SKU")[r]
        state == IF HasCol(f.data, "Shipping State")
                 THEN Col(f.data, "Shipping State")[r] ELSE NaN
    IN /\ IsStr(sku) /\ Strip(sku.v) # <<>>
       /\ mgr.valid_state_codes # {} => ~IsNa(map_state(mgr, state))

\* C17: of a file that read_csv reads, load_data drops the rows whose
\* timestamp is missing or does not parse, and keeps the rows whose timestamp
\* parses (and that nothing else has dropped).
C17_BadTimestampRowDropped ==
    (Loaded /\ ~out.ret.hit) =>
        \A p \in FilesIn(out.source) :
            LET f == out.source.files[p]
            IN (OtherwiseReadable(f) /\ HasCol(f.data, "Order ID")) =>
                   \A r \in 1..Len(f.data.rows) :
                       LET id == Col(f.data, "Order ID")[r]
                       IN IF TimestampParses(f, r)
                          THEN KeptButForTimestamp(sku_manager, f, r) =>
                                   RowsWith(out.ret.df, id) >= 1
                          ELSE RowsWith(out.ret.df, id) = 0

\* the row of the result before row i in its partition (i is not the first)
Predecessor(i) ==
    CHOOSE j \in 1..(i - 1) :
        /\ PartOf(out.ret[j]) = PartOf(out.ret[i])
        /\ \A x \in (j + 1)..(i - 1) : PartOf(out.ret[x]) # PartOf(out.ret[i])

IsInf(x) == x.k = "inf"

\* C18: in the result of calculate_quarterly_metrics no growth is infinite,
\* and a row whose predecessor in its partition has the value zero has no
\* growth, for revenue and for units.
C18_ZeroPreviousAbsent ==
    Quarterly =>
        \A i \in 1..Len(out.ret) :
            /\ ~IsInf(out.ret[i].Revenue_Growth)
            /\ ~IsInf(out.ret[i].Units_Growth)
            /\ ~FirstOfPartition(i) =>
                  /\ out.ret[Predecessor(i)].TotalRevenue = 0 =>
                        IsNa(out.ret[i].Revenue_Growth)
                  /\ out.ret[Predecessor(i)].UnitsSold = 0 =>
                        IsNa(out.ret[i].Units_Growth)

\* the quarter of a label, 1 to 4
QuarterNumber(label) == CHOOSE q \in 1..4 : QuarterOf(3 * q) = label

\* x is (current - previous) / previous * 100
IsGrowth(x, current, previous) ==
    x.k = "num" /\ x.n * previous = (current - previous) * 100 * x.d

\* C19: the rows of calculate_quarterly_metrics come by year and, within a
\* year, by quarter from Q1 to Q4; a row that has a predecessor in its
\* partition, of a value other than zero, has the growth
\* (current - previous) / previous * 100 over that predecessor.
C19_GrowthOverPredecessor ==
    Quarterly =>
        /\ \A i \in 1..(Len(out.ret) - 1) :
              \/ out.ret[i].Year < out.ret[i + 1].Year
              \/ /\ out.ret[i].Year = out.ret[i + 1].Year
                 /\ QuarterNumber(out.ret[i].Quarter)
                      <= QuarterNumber(out.ret[i + 1].Quarter)
        /\ \A i \in 1..Len(out.ret) :
              ~FirstOfPartition(i) =>
                  LET p == out.ret[Predecessor(i)]
                  IN /\ p.TotalRevenue # 0 =>
                           IsGrowth(out.ret[i].Revenue_Growth,
                                    out.ret[i].TotalRevenue, p.TotalRevenue)
                     /\ p.UnitsSold # 0 =>
                           IsGrowth(out.ret[i].Units_Growth,
                                    out.ret[i].UnitsSold, p.UnitsSold)

\* revenue 100 in Q1 2023, 150 in Q2 2023 and 80 in Q1 2024: Q2 2023 has the
\* growth 50
C19_Witness ==
    /\ Quarterly /\ ~out.by_sku /\ Len(out.ret) = 3
    /\ out.ret[1].Quarter = <<"Q", "1">> /\ out.ret[1].TotalRevenue = 100
    /\ out.ret[2].Quarter = <<"Q", "2">> /\ out.ret[2].TotalRevenue = 150
    /\ out.ret[2].Revenue_Growth = Rat(50, 1)
    /\ out.ret[3].Year = 2024 /\ out.ret[3].TotalRevenue = 80

(***************************************************************************)
(* Properties of the SKU map                                               *)
(***************************************************************************)
\* the sheets of the workbook, by position, with both SKU columns and rows
SkuSheetsOf(lg) ==
    IF lg.st # "ok" THEN {}
    ELSE {i \in 1..Len(lg.sheets) :
             /\ HasCol(lg.sheets[i].data, "SKU")
             /\ HasCol(lg.sheets[i].data, "Merchant SKU")
             /\ Len(lg.sheets[i].data.rows) > 0}

\* the rows of sheet i whose raw SKU, trimmed, is the text t
RowsOfRaw(lg, i, t) ==
    LET d == lg.sheets[i].data
    IN {r \in 1..Len(d.rows) : Strip(AsTypeStr(Col(d, "Merchant SKU")[r])) = t}

\* the raw SKUs of the mapping sheets, trimmed
RawSkusOf(lg) ==
    UNION {{Strip(AsTypeStr(Col(lg.sheets[i].data, "Merchant SKU")[r])) :
               r \in 1..Len(lg.sheets[i].data.rows)} : i \in SkuSheetsOf(lg)}

\* the last mapping sheet, in the listing order, that has the raw SKU
LastSheetOf(lg, t) ==
    CHOOSE i \in SkuSheetsOf(lg) :
        /\ RowsOfRaw(lg, i, t) # {}
        /\ \A j \in SkuSheetsOf(lg) : RowsOfRaw(lg, j, t) # {} => j <= i

\* C20: the SKU map of the resolver has one entry for each raw SKU of the
\* mapping sheets, and it is a canonical SKU the last of the sheets that have
\* the raw SKU, in listing order, gives it.
C20_LastSheetWins ==
    /\ DOMAIN sku_manager.sku_mapping = {Str(t) : t \in RawSkusOf(legend)}
    /\ \A t \in RawSkusOf(legend) :
           LET d == legend.sheets[LastSheetOf(legend, t)].data
           IN \E r \in RowsOfRaw(legend, LastSheetOf(legend, t), t) :
                  sku_manager.sku_mapping[Str(t)]
                    = Str(Strip(AsTypeStr(Col(d, "SKU")[r])))

\* r1 is in two mapping sheets with different canonical SKUs, and map_sku
\* has answered with the one of the second
C20_Witness ==
    /\ Cardinality({i \in SkuSheetsOf(legend) : RowsOfRaw(legend, i, r1) # {}}) = 2
    /\ out.op = "map_sku" /\ out.arg = Str(r1)
    /\ \E r \in RowsOfRaw(legend, LastSheetOf(legend, r1), r1) :
           out.ret = Col(legend.sheets[LastSheetOf(legend, r1)].data, "SKU")[r]
    /\ \E i \in SkuSheetsOf(legend) : \E r \in RowsOfRaw(legend, i, r1) :
           Col(legend.sheets[i].data, "SKU")[r] # out.ret


(***************************************************************************)
(* Reading sheets: load_sheet_data is called for sheet after sheet of a    *)
(* workbook that nobody writes.                                            *)
(***************************************************************************)
SheetChoices ==
    { Sh(MapName, SkuGap), Sh(MapName, Sku1), Sh(CountsName, Counts),
      Sh(StateName, State1), Sh(StateName, State4) }

SheetLegends ==
    { Absent, Corrupt }
    \cup { Workbook(<<a>>) : a \in SheetChoices }
    \cup { Workbook(<<p[1], p[2]>>) :
             p \in {q \in SheetChoices \X SheetChoices : q[1].name # q[2].name} }

SheetNames == {MapName, StateName, CountsName}

InitSheets ==
    /\ \E lg \in SheetLegends : Startup(lg)
    /\ source = EmptySource
    /\ data_cache = NoEntry
    /\ out = [op |-> "init"]

\* legend_loader.load_sheet_data(sheet_name)
LoadSheetData ==
    \E n \in SheetNames :
        /\ sheet_cache' = CacheAfterLoad(sheet_cache, legend, n)
        /\ out' = [op |-> "sheet", name |-> n,
                   ret |-> load_sheet_data(sheet_cache, legend, n)]
        /\ UNCHANGED <<legend, sku_manager, source, data_cache>>

NextSheets == LoadSheetData \/ NewManager \/ ClearCache

SpecSheets == InitSheets /\ [][NextSheets]_vars

(***************************************************************************)
(* Properties of reading a sheet                                           *)
(***************************************************************************)
\* a cell that holds nothing: a missing value or a text of no character
IsEmptyCell(c) == IsNa(c) \/ (IsStr(c) /\ Strip(c.v) = <<>>)

\* the rows of a table that hold something, in order
RowsWithContent(df) ==
    Pick([r \in 1..Len(df.rows) |-> r],
         {r \in 1..Len(df.rows) :
             \E i \in 1..Len(df.cols) : ~IsEmptyCell(df.rows[r][i])})

\* load_sheet_data has returned the rows of a sheet of the workbook
SheetRead ==
    /\ out.op = "sheet"
    /\ legend.st = "ok"
    /\ HasSheet(legend.sheets, out.name)

\* C21: the table load_sheet_data returns has one row for each row of the
\* sheet that holds something and none for a row whose cells are all empty,
\* be the columns text or numbers, and a cell that is empty in the sheet is
\* empty in the table.
C21_NoEmptyRowNoInventedCell ==
    SheetRead =>
        LET sheet == ReadExcel(legend.sheets, out.name)
            content == RowsWithContent(sheet)
            ret == out.ret
        IN /\ Len(ret.rows) = Len(content)
           /\ \A k \in 1..Len(ret.rows) : \A j \in 1..Len(ret.cols) :
                  (k <= Len(content) /\ HasCol(sheet, ret.cols[j])) =>
                      (IsEmptyCell(sheet.rows[content[k]][ColIdx(sheet, ret.cols[j])])
                           => IsEmptyCell(ret.rows[k][j]))


(***************************************************************************)
(* Editing the workbook while the dashboard runs: the files of the source  *)
(* directory stay as they are, sheets are saved through the manager and    *)
(* app.py runs again.                                                      *)
(***************************************************************************)
EditLegend == Workbook(<<Sh(MapName, Sku1)>>)

EditSource == [exists |-> TRUE, files |-> ("a.csv" :> FileOf(CsvA, 1))]

InitEdit ==
    /\ Startup(EditLegend)
    /\ source = EditSource
    /\ data_cache = NoEntry
    /\ out = [op |-> "init"]

NextEdit == RunApp \/ ManagerSave \/ ClearCache

SpecEdit == InitEdit /\ [][NextEdit]_vars

\* C22: the files unchanged, the call of load_data that follows a successful
\* save of a sheet and the rebuild of the resolver returns the table its
\* body computes with the mappings the resolver has at that call: its
\* canonical SKUs and its regions are those of the mappings in force, not of
\* the mappings of the call that filled the cache.
C22_TableUsesCurrentMappings ==
    [][(out.op = "save" /\ out.ok /\ IsRunApp) =>
           \E order \in GlobOrders(source') :
               out'.ret.df = LoadDataBody(source', order, sku_manager').df]_vars


\* the number a cell of a file stands for: its value, or 0 when the cell is
\* missing or holds a text that is no number
NumberOrZero(c) == IF IsNa(c) \/ IsStr(c) THEN 0 ELSE c.n

\* the cell of row r of the file in that column, missing if the file has no
\* such column
FileCell(f, r, name) == IF HasCol(f.data, name) THEN Col(f.data, name)[r] ELSE NaN

\* row r of the file has a price, a discount or a quantity that is missing
\* or no number
LacksNumber(f, r) ==
    \E i \in 1..Len(NumericCols) : FileCell(f, r, NumericCols[i]).k # "num"

\* row k of the table carries the numbers of row r of the file
SameNumbers(df, k, f, r) ==
    /\ Col(df, "Order ID")[k] = FileCell(f, r, "Order ID")
    /\ \A i \in 1..Len(NumericCols) :
          Col(df, NumericCols[i])[k]
            = Num(NumberOrZero(FileCell(f, r, NumericCols[i])))

\* C23: in every row of the table load_data computes, price, discount and
\* quantity are the numbers of a row of a file, 0 standing for a value that
\* is missing or no number, and the revenue is the price less the discount,
\* negative or not; a row is not dropped for lacking such a number.
C23_MissingNumbersAreZero ==
    (Loaded /\ ~out.ret.hit) =>
        /\ \A k \in 1..Len(out.ret.df.rows) :
              /\ \E p \in FilesIn(out.source) :
                     \E r \in 1..Len(out.source.files[p].data.rows) :
                         SameNumbers(out.ret.df, k, out.source.files[p], r)
              /\ Col(out.ret.df, "Revenue")[k]
                   = Num(Col(out.ret.df, "Item Price")[k].n
                         - Col(out.ret.df, "Item Promo Discount")[k].n)
        /\ \A p \in FilesIn(out.source) :
               LET f == out.source.files[p]
               IN (FileParses(f) /\ Len(out.ret.df.rows) > 0) =>
                      \A r \in 1..Len(f.data.rows) :
                          (LacksNumber(f, r) /\ Retained(sku_manager, out.source, f, r)) =>
                              \E k \in 1..Len(out.ret.df.rows) :
                                  SameNumbers(out.ret.df, k, f, r)

\* the table holds a row whose price was no number and whose discount was
\* missing, both now 0, and a row whose revenue is negative
C23_Witness ==
    /\ Loaded /\ ~out.ret.hit
    /\ \E p \in FilesIn(out.source) :
           LET f == out.source.files[p]
           IN \E r \in 1..Len(f.data.rows) :
                  /\ IsStr(FileCell(f, r, "Item Price"))
                  /\ IsNa(FileCell(f, r, "Item Promo Discount"))
                  /\ \E k \in 1..Len(out.ret.df.rows) :
                         /\ SameNumbers(out.ret.df, k, f, r)
                         /\ Col(out.ret.df, "Revenue")[k] = Num(0)
    /\ \E k \in 1..Len(out.ret.df.rows) : Col(out.ret.df, "Revenue")[k].n < 0


\* C24: a successful save of a sheet the workbook already has leaves the
\* list of sheet names as it was, in the same order, and so the order in
\* which the sheets are merged into the SKU mapping.
C24_SaveKeepsSheetOrder ==
    [][(out'.op = "save" /\ out'.ok /\ legend.st = "ok"
          /\ HasSheet(legend.sheets, out'.name)) =>
           SheetNamesOf(legend'.sheets) = SheetNamesOf(legend.sheets)]_vars


\* C26: when SKUManager.save_sheet_data returns failure the resolver is as
\* it was: its list of sheets, its SKU mapping, its region lookup and its
\* valid region codes.
C26_FailedSaveKeepsResolver ==
    [][(out'.op = "save" /\ ~out'.ok) =>
          /\ sku_manager'.available_sheets = sku_manager.available_sheets
          /\ sku_manager'.sku_mapping = sku_manager.sku_mapping
          /\ sku_manager'.state_name_to_code = sku_manager.state_name_to_code
          /\ sku_manager'.valid_state_codes = sku_manager.valid_state_codes]_vars

\* a save has failed on a resolver that has mappings and regions, and the
\* workbook it left no longer holds the sheets the resolver lists
C26_Witness ==
    /\ out.op = "save" /\ ~out.ok
    /\ DOMAIN sku_manager.sku_mapping # {}
    /\ sku_manager.valid_state_codes # {}
    /\ legend.st = "ok"
    /\ SheetNamesOf(legend.sheets) # sku_manager.available_sheets


(***************************************************************************)
(* Relative years: app.py lines 69-91 and 164-181.  A purchase instant is  *)
(* counted in parts of a day since the first midnight, UnitsPerDay parts   *)
(* to the day; timedelta(days=n) is n * UnitsPerDay of them.               *)
(***************************************************************************)
UnitsPerDay == 2
MaxSales == 3
YearDays == 365
SpanDays == 364

Days(n) == n * UnitsPerDay

\* a Timestamp: the instant at part u of a day
Instant(day, u) == [k |-> "instant", t |-> Days(day) + u]

\* Timedelta.days
DaysOf(delta) == delta \div UnitsPerDay

Min(a, b) == IF a <= b THEN a ELSE b

SaleCols == <<"SKU", "Purchase Date">>
SaleDays == {0, 364, 365, 730}
SaleRows ==
    {<<Str(s), Instant(d, u)>> :
        s \in {W, V}, d \in SaleDays, u \in 0..(UnitsPerDay - 1)}

\* sku_data['Purchase Date'] of lines 71-73, as the set of its instants
SaleInstants(df, sku) ==
    {Col(df, "Purchase Date")[r].t :
        r \in {q \in 1..Len(df.rows) : Col(df, "SKU")[q] = sku}}

first_sale_date(df, sku) ==
    CHOOSE t \in SaleInstants(df, sku) : \A x \in SaleInstants(df, sku) : t <= x

last_sale_date(df, sku) ==
    CHOOSE t \in SaleInstants(df, sku) : \A x \in SaleInstants(df, sku) : x <= t

\* lines 78-79
num_periods(df, sku) ==
    DaysOf(last_sale_date(df, sku) - first_sale_date(df, sku)) \div YearDays + 1

\* lines 87-91: the i-th period starts i - 1 times 365 days after the first
\* sale and ends 364 days later, or at the last sale if that comes before
period_ranges(df, sku) ==
    [i \in 1..num_periods(df, sku) |->
        LET start == first_sale_date(df, sku) + Days((i - 1) * YearDays)
        IN [start |-> start,
            end |-> Min(start + Days(SpanDays), last_sale_date(df, sku))]]

\* lines 164-181 on the sales of the SKU: the rows within one of the chosen
\* periods
InPeriods(df, sku, ranges, chosen) ==
    FilterRows(df, {r \in 1..Len(df.rows) :
                       /\ \E i \in chosen :
                              /\ Col(df, "Purchase Date")[r].t >= ranges[i].start
                              /\ Col(df, "Purchase Date")[r].t <= ranges[i].end
                       /\ Col(df, "SKU")[r] = sku})

InitPeriods ==
    /\ Startup(AppLegend)
    /\ source = EmptySource
    /\ data_cache = NoEntry
    /\ out = [op |-> "sales", df |-> [cols |-> SaleCols, rows |-> <<>>]]

\* one more sale is in the unified table
AddSale ==
    /\ out.op = "sales"
    /\ Len(out.df.rows) < MaxSales
    /\ \E row \in SaleRows :
           out' = [op |-> "sales",
                   df |-> [cols |-> SaleCols, rows |-> Append(out.df.rows, row)]]
    /\ UNCHANGED <<legend, sheet_cache, sku_manager, source, data_cache>>

\* lines 61-91: one SKU of the table is selected and its periods are built
SelectSku ==
    /\ out.op \in {"sales", "periods", "relative"}
    /\ \E r \in 1..Len(out.df.rows) :
           LET sku == Col(out.df, "SKU")[r]
           IN out' = [op |-> "periods", df |-> out.df, sku |-> sku,
                      first |-> first_sale_date(out.df, sku),
                      last |-> last_sale_date(out.df, sku),
                      ranges |-> period_ranges(out.df, sku)]
    /\ UNCHANGED <<legend, sheet_cache, sku_manager, source, data_cache>>

\* lines 110-116 and 164-181: relative years are chosen and the filter runs
SelectRelativeYears ==
    /\ out.op = "periods"
    /\ \E chosen \in SUBSET (1..Len(out.ranges)) :
           /\ chosen # {}
           /\ out' = [op |-> "relative", df |-> out.df, sku |-> out.sku,
                      first |-> out.first, last |-> out.last,
                      ranges |-> out.ranges, chosen |-> chosen,
                      ret |-> InPeriods(out.df, out.sku, out.ranges, chosen)]
    /\ UNCHANGED <<legend, sheet_cache, sku_manager, source, data_cache>>

NextPeriods == AddSale \/ SelectSku \/ SelectRelativeYears

SpecPeriods == InitPeriods /\ [][NextPeriods]_vars

\* C25: one SKU selected, every purchase instant of the SKU, from its first
\* sale to its last, lies in one of the periods built for it, its bounds
\* included: the periods cover all the sales of the SKU.
C25_PeriodsCoverAllSales ==
    out.op = "periods" =>
        \A t \in SaleInstants(out.df, out.sku) :
            (out.first <= t /\ t <= out.last) =>
                \E i \in 1..Len(out.ranges) :
                    out.ranges[i].start <= t /\ t <= out.ranges[i].end

====
